---- MODULE Spec2Model ----
(***************************************************************************)
(* Model of pytestsalt/fixtures/daemons.py: the supervisor fixtures        *)
(* (salt_master, salt_minion, sshd_server and their variants), the daemon  *)
(* object (SaltDaemonScriptBase), its readiness prober coroutine, the      *)
(* one-shot command runner (SaltCliScriptBase) and ShellResult.            *)
(*                                                                         *)
(* Seven specifications share the module:                                  *)
(*   Spec     the supervisor fixture, its daemon objects and the prober    *)
(*            coroutines scheduled on the IOLoop;                          *)
(*   SpecCli  one run_sync / run call of a one-shot command;               *)
(*   SpecEq   ShellResult.__eq__ applied to bounded Python values;         *)
(*   SpecTerm the steps of terminate() and terminate_child_processes(pid)  *)
(*            against the process tree of one supervised daemon;           *)
(*   SpecClose the steps of close_terminal(terminal) against the process   *)
(*            of the terminal;                                             *)
(*   SpecLoop the IOLoop fixtures of the session and of the tests, and the *)
(*            IOLoop the objects of each scope run their waits on;         *)
(*   SpecPeer the peer-name check of the prober applied to the results of  *)
(*            the 'manage.joined' query.                                   *)
(***************************************************************************)
EXTENDS Integers, FiniteSets, Sequences, TLC

(***************************************************************************)
(* Bounds of the model and constants of the program.                       *)
(***************************************************************************)
\* the number of TCP ports a daemon class without a peer name may declare
\* (SSHD declares 1, SaltMaster 3)
MaxPorts == 1
\* the number of output chunks a one-shot command may still write
MaxChunks == 2
\* the number of processes the process tree of one daemon may fork
MaxKids == 2
\* the attempt bound written in the fixtures (attempts <= 3, attempts >= 3)
MaxAttempts == 3
\* wait_until_running(timeout=10), then wait_until_running(timeout=5)
FirstTimeout == 10
SecondTimeout == 5
\* SaltCliScriptBase.DEFAULT_TIMEOUT, in seconds
DEFAULT_TIMEOUT == 25

VARIABLES
    \* ---- configuration and build, fixed at Init
    check_ports_cfg,  \* what get_check_ports() returns for the daemon class
    salt_run,         \* TRUE iff a salt_run collaborator was passed in
    xfailCaught,      \* TRUE iff pytest's XFailed derives from Exception
    iter_order,       \* the order in which set(check_ports) is iterated
    \* ---- the supervisor fixture (a generator)
    pc,               \* position in the fixture
    attempts,         \* local variable attempts
    connectable,      \* local variable connectable (or the exception raised)
    call,             \* which wait_until_running call of the attempt: 1 or 2
    timeout,          \* the timeout argument of that call, in seconds
    yielded,          \* the daemon object handed to the caller, 0 if none
    \* ---- the daemon objects, one per attempt
    _running,         \* SaltDaemonScriptBase._running (liveness flag)
    _connectable,     \* SaltDaemonScriptBase._connectable (readiness flag)
    started,          \* number of start() calls per object
    terminated,       \* number of terminate() calls per object
    proc,             \* the OS process of each object
    waitLog,          \* the values wait_until_running returned, per object
    \* ---- the IOLoop and the coroutines scheduled on it
    ioloop,           \* "running" inside run_sync, else "stopped"
    prob,             \* the _wait_until_running coroutines, per object and call
    sleepers,         \* the coroutines in gen.sleep(0.5), in the order of their timers
    future,           \* the outcome of the coroutine run_sync waits for
    \* ---- the environment
    listening,        \* ports that accept connections
    joined,           \* TRUE iff the minion id is in the 'manage.joined' listing
    \* ---- one-shot command (SpecCli)
    cli,
    \* ---- ShellResult equality (SpecEq)
    eq,
    \* ---- terminate() against the process tree (SpecTerm)
    reap,
    \* ---- close_terminal(terminal) (SpecClose)
    terminal,
    \* ---- the IOLoop fixtures and the current IOLoop (SpecLoop)
    loops,
    \* ---- the peer-name check on a query result (SpecPeer)
    peer

vars == <<check_ports_cfg, salt_run, xfailCaught, iter_order, pc, attempts, connectable,
          call, timeout, yielded, _running, _connectable, started, terminated, proc, waitLog,
          ioloop, prob, sleepers, future, listening, joined, cli, eq, reap, terminal, loops, peer>>

cfgVars == <<check_ports_cfg, salt_run, xfailCaught, iter_order>>
supVars == <<pc, attempts, connectable, call, timeout, yielded>>
daemonVars == <<_running, _connectable, started, terminated, proc>>
envVars == <<listening, joined>>
loopVars == <<ioloop, prob, sleepers, future>>
otherVars == <<cli, eq, reap, terminal, loops, peer>>

(***************************************************************************)
(* Daemon objects and readiness checks.                                    *)
(***************************************************************************)
\* the loop guard attempts <= 3 admits a 4th iteration, so 4 objects exist
Daemons == 1..(MaxAttempts + 1)

\* a readiness check is Port(int) or PeerName(string): a tagged pair
Ports == {<<"port", p>> : p \in 1..MaxPorts}
PeerNames == {<<"id", 1>>}
Checks == Ports \cup PeerNames
NoPort == <<"none", 0>>

\* the coroutine of one wait_until_running call
\* (fresh: since the run_sync in progress began it has neither come out of a
\* gen.sleep(0.5) nor got the result of a peer query)
IdleProber == [pc |-> "none", check_ports |-> {}, todo |-> {}, port |-> NoPort,
               fresh |-> FALSE]

\* a coroutine that has returned or raised: its frame is gone
DoneProber == [IdleProber EXCEPT !.pc = "done"]

\* the orders in which a set can be iterated
Orders(S) == {o \in [1..Cardinality(S) -> S] :
                 \A i, j \in 1..Cardinality(S) : i # j => o[i] # o[j]}

\* the two wait_until_running calls of one attempt (timeout=10, timeout=5)
Calls == {1, 2}

\* the fixture has not begun, no daemon object exists, the loop is stopped
SupIdle ==
    /\ pc = "loop"
    /\ attempts = 0
    /\ connectable = "unset"
    /\ call = 0
    /\ timeout = 0
    /\ yielded = 0
    /\ _running = [d \in Daemons |-> FALSE]
    /\ _connectable = [d \in Daemons |-> FALSE]
    /\ started = [d \in Daemons |-> 0]
    /\ terminated = [d \in Daemons |-> 0]
    /\ proc = [d \in Daemons |-> "none"]
    /\ waitLog = [d \in Daemons |-> <<>>]
    /\ ioloop = "stopped"
    /\ prob = [d \in Daemons |-> [k \in Calls |-> IdleProber]]
    /\ sleepers = <<>>
    /\ future = "none"
    /\ listening = {}
    /\ joined = FALSE

\* what the daemon classes declare: nothing (SaltDaemonScriptBase), ports
\* only (SSHD, SaltMaster), the minion id and one port (SaltMinion)
ClassCheckPorts ==
    {{<<"port", p>> : p \in 1..n} : n \in 0..MaxPorts}
        \cup {{<<"id", 1>>, <<"port", 1>>}}

\* ports are interchangeable, so among them one order stands for all; where
\* the peer name comes in the iteration is open
PortsAscend(o) ==
    \A i, j \in 1..Len(o) :
        (i < j /\ o[i][1] = "port" /\ o[j][1] = "port") => o[i][2] < o[j][2]

InitSup ==
    /\ check_ports_cfg \in ClassCheckPorts
    /\ iter_order \in {o \in Orders(check_ports_cfg) : PortsAscend(o)}
    \* only the minion fixture passes a salt_run collaborator
    /\ salt_run \in (IF check_ports_cfg \cap PeerNames = {} THEN {FALSE} ELSE BOOLEAN)
    /\ xfailCaught \in BOOLEAN
    /\ SupIdle

Init ==
    /\ InitSup
    /\ cli = [mode |-> "unused"]
    /\ eq = [pc |-> "unused"]
    /\ reap = [pc |-> "unused"]
    /\ terminal = [pc |-> "unused"]
    /\ loops = [pc |-> "unused"]
    /\ peer = [pc |-> "unused"]

(***************************************************************************)
(* SaltDaemonScriptBase                                                    *)
(***************************************************************************)
\* is_alive(): self._running.is_set()
is_alive(d) == _running[d]

\* get_check_ports(): a fresh collection on every call
get_check_ports == check_ports_cfg

\* start(): sets _running, then spawns the process.  The spawned daemon may
\* already have exited when start() returns (bad binary path); a process
\* that came up runs until terminate().
start(d) ==
    /\ _running' = [_running EXCEPT ![d] = TRUE]
    /\ started' = [started EXCEPT ![d] = @ + 1]
    /\ \E st \in {"running", "exited"} : proc' = [proc EXCEPT ![d] = st]
    /\ UNCHANGED <<_connectable, terminated>>

\* the call left out: the object of the failed attempt stays as it is
terminate_NotCalled(d) == UNCHANGED <<daemonVars, envVars>>

\* terminate(): clears both flags, terminates the process
terminate(d) ==
    /\ _running' = [_running EXCEPT ![d] = FALSE]
    /\ _connectable' = [_connectable EXCEPT ![d] = FALSE]
    /\ terminated' = [terminated EXCEPT ![d] = @ + 1]
    /\ proc' = [proc EXCEPT ![d] = IF @ = "running" THEN "exited" ELSE @]
    /\ listening' = IF proc[d] = "running" THEN {} ELSE listening
    /\ joined' = IF proc[d] = "running" THEN FALSE ELSE joined
    /\ UNCHANGED started

(***************************************************************************)
(* wait_until_running(timeout): io_loop.run_sync(_wait_until_running)      *)
(***************************************************************************)
SetProb(d, k, rec) == prob' = [prob EXCEPT ![d][k] = rec]

Unfinished(p) == p.pc \notin {"none", "done"}

\* the coroutine the run_sync in progress waits for
Own(d, k) == pc = "run" /\ d = attempts /\ k = call

\* what the call hands to the fixture: a return value or a raised exception
Deliver(d, v) ==
    /\ connectable' = v
    /\ waitLog' = [waitLog EXCEPT ![d] = Append(@, v)]
    /\ pc' = "got"

\* the value wait_until_running returns when run_sync raised ioloop.TimeoutError
TimeoutResult == "False"

\* wait_until_running is entered: the early return when _connectable is set,
\* else run_sync schedules a new coroutine and starts the loop
WaitCall ==
    /\ pc = "wait"
    /\ LET d == attempts IN
       IF _connectable[d]
       THEN /\ Deliver(d, "True")
            /\ UNCHANGED <<ioloop, prob, future>>
       ELSE /\ prob' = [e \in Daemons |-> [k \in Calls |->
                          IF e = d /\ k = call
                          THEN [IdleProber EXCEPT !.pc = "entry", !.fresh = TRUE]
                          ELSE [prob[e][k] EXCEPT !.fresh = Unfinished(prob[e][k])]]]
            /\ ioloop' = "running"
            /\ future' = "pending"
            /\ pc' = "run"
            /\ UNCHANGED <<connectable, waitLog>>
    /\ UNCHANGED <<cfgVars, attempts, call, timeout, yielded, daemonVars, envVars, sleepers,
                   otherVars>>

\* the coroutine of this call has finished: run_sync stops the loop and
\* returns its result or raises its exception
WaitReturn ==
    /\ pc = "run"
    /\ future # "pending"
    /\ Deliver(attempts, future)
    /\ ioloop' = "stopped"
    /\ future' = "none"
    /\ UNCHANGED <<cfgVars, attempts, call, timeout, yielded, daemonVars, envVars, prob,
                   sleepers, otherVars>>

\* the timeout handled by giving the daemon up on the spot
WaitTimeout_Terminates ==
    /\ pc = "run"
    /\ future = "pending"
    /\ Deliver(attempts, TimeoutResult)
    /\ terminate(attempts)
    /\ ioloop' = "stopped"
    /\ future' = "none"
    /\ UNCHANGED <<cfgVars, attempts, call, timeout, yielded, prob, sleepers,
                   otherVars>>

\* the timeout of run_sync (11 s, 6 s) elapses first: the loop is stopped, the
\* coroutine stays scheduled on it, and ioloop.TimeoutError becomes the result
\* False.  In that time the loop has turned many times and every 0.5 s sleep
\* that was pending has ended: a coroutine still there has been through a
\* sleep or is waiting for a peer query, and every coroutine of a daemon
\* terminated before has run to its end.
WaitTimeout ==
    /\ pc = "run"
    /\ future = "pending"
    /\ \A e \in Daemons, k \in Calls :
          Unfinished(prob[e][k])
              => (_running[e] /\ (~prob[e][k].fresh \/ prob[e][k].pc = "query"))
    /\ Deliver(attempts, TimeoutResult)
    /\ ioloop' = "stopped"
    /\ future' = "none"
    /\ UNCHANGED <<cfgVars, attempts, call, timeout, yielded, daemonVars, envVars, prob,
                   sleepers, otherVars>>

(***************************************************************************)
(* _wait_until_running: the steps of the coroutine between its yields      *)
(***************************************************************************)
\* the IOLoop turns inside run_sync, and while the caller's test uses it
LoopTurning == ioloop = "running" \/ pc = "yielded"

\* while self._running.is_set(): the next suspension point
WhileHead(d) == IF _running[d] THEN "moment" ELSE "final"

\* resumed from the first yield gen.moment: read the checks, test the loop
ProberEnter(d, p) ==
    [p EXCEPT !.check_ports = get_check_ports, !.pc = WhileHead(d)]

\* if not check_ports: self._connectable.set()
DeclaresReady(p) == p.check_ports = {}

\* the break after self._connectable.set() left out: the empty pass is made
\* and the coroutine sleeps
ProberPass_NoBreak(p) ==
    IF DeclaresReady(p)
    THEN [p EXCEPT !.pc = "sleep"]
    ELSE [p EXCEPT !.pc = "for", !.todo = p.check_ports]

\* resumed inside the while loop: declare readiness when nothing is pending,
\* else begin a pass over a copy of the pending set
ProberPass(p) ==
    IF DeclaresReady(p)
    THEN [p EXCEPT !.pc = "final"]
    ELSE [p EXCEPT !.pc = "for", !.todo = p.check_ports]

\* the coroutine after one check of the pass has been handled
AfterCheck(p, pending, rest) ==
    [p EXCEPT !.check_ports = pending, !.todo = rest, !.port = NoPort,
              !.pc = IF rest = {} THEN "sleep" ELSE "for"]

\* the result of connect_ex never taken for a success
Connects_Never(port) == FALSE

\* connect_ex(('localhost', port)) == 0
Connects(port) == port \in listening

\* for port in set(check_ports): the next element of the iteration
NextPort(todo) ==
    iter_order[CHOOSE i \in 1..Len(iter_order) :
                   /\ iter_order[i] \in todo
                   /\ \A j \in 1..(i - 1) : iter_order[j] \notin todo]

\* resumed inside the for loop: one port connect, or the start of a peer query
ProberCheck(p) ==
    LET port == NextPort(p.todo)
        rest == p.todo \ {port}
    IN IF port[1] = "port"
       THEN AfterCheck(p, IF Connects(port) THEN p.check_ports \ {port}
                          ELSE p.check_ports, rest)
       ELSE IF ~salt_run
            THEN DoneProber
            ELSE [p EXCEPT !.pc = "query", !.port = port, !.todo = rest]

\* the missing collaborator not reported
RaisesRuntimeError_Never(p) == FALSE

\* raise RuntimeError when a peer name is to be checked without salt_run
RaisesRuntimeError(p) == NextPort(p.todo)[1] = "id" /\ ~salt_run

\* resumed from the final gen.moment: return self._connectable.is_set()
ProberFinish(c) == IF c THEN "True" ELSE "False"

\* the coroutines suspended at a yield gen.moment: the loop resumes each of
\* them once in every iteration
ReadyPcs == {"entry", "moment", "for", "final"}

\* one resumption of coroutine p of daemon d, c being _connectable of d:
\* the coroutine after it, _connectable after it, and what it returned or raised
Resume(d, p, c) ==
    CASE p.pc = "entry"  -> [p |-> ProberEnter(d, p), c |-> c, out |-> "none"]
      [] p.pc = "moment" -> [p |-> ProberPass(p), c |-> c \/ DeclaresReady(p),
                             out |-> "none"]
      [] p.pc = "for"    -> [p |-> ProberCheck(p), c |-> c,
                             out |-> IF RaisesRuntimeError(p) THEN "RuntimeError"
                                     ELSE "none"]
      [] p.pc = "final"  -> [p |-> DoneProber, c |-> c, out |-> ProberFinish(c)]
      [] OTHER           -> [p |-> p, c |-> c, out |-> "none"]

\* the coroutines in the order in which one iteration resumes them
Slots(first) ==
    [i \in 1..(2 * Cardinality(Daemons)) |->
        <<(i + 1) \div 2, IF i % 2 = 1 THEN first ELSE 3 - first>>]

\* one iteration of the IOLoop: every coroutine suspended at gen.moment is
\* resumed once; the two coroutines of one daemon run in either order
LoopIteration ==
    /\ LoopTurning
    /\ \E d \in Daemons, k \in Calls : prob[d][k].pc \in ReadyPcs
    /\ \E first \in Calls :
         LET r(d) == LET a == Resume(d, prob[d][first], _connectable[d])
                         b == Resume(d, prob[d][3 - first], a.c)
                     IN [c |-> b.c,
                         p |-> [k \in Calls |-> IF k = first THEN a.p ELSE b.p],
                         out |-> [k \in Calls |-> IF k = first THEN a.out ELSE b.out]]
             asleep(slot) == /\ r(slot[1]).p[slot[2]].pc = "sleep"
                             /\ prob[slot[1]][slot[2]].pc # "sleep"
         IN /\ prob' = [d \in Daemons |-> r(d).p]
            /\ _connectable' = [d \in Daemons |-> r(d).c]
            /\ sleepers' = sleepers \o SelectSeq(Slots(first), asleep)
            /\ future' = IF pc = "run" /\ r(attempts).out[call] # "none"
                          THEN r(attempts).out[call] ELSE future
    /\ UNCHANGED <<cfgVars, supVars, _running, started, terminated, proc, waitLog,
                   ioloop, envVars, otherVars>>

\* the results salt_run.run('manage.joined') can deliver to the coroutine;
\* the listing holds the minion id iff the minion has joined
QueryResults ==
    {[exitcode |-> e, json |-> j] :
        e \in {0, 1}, j \in {"None", IF joined THEN "with id" ELSE "without id"}}

\* the exit code of the query not looked at
PeerSatisfied_AnyExitCode(r) == r.json = "with id"

\* lines 1424-1426: the peer check is removed iff exit code 0 and id listed
PeerSatisfied(r) == r.exitcode = 0 /\ r.json = "with id"

\* resumed with the result of the query
ProberQueryDone(d, k) ==
    /\ LoopTurning
    /\ prob[d][k].pc = "query"
    /\ \E r \in QueryResults :
         LET p == prob[d][k]
             q == AfterCheck(p, IF PeerSatisfied(r) THEN p.check_ports \ {p.port}
                                ELSE p.check_ports, p.todo)
         IN /\ SetProb(d, k, [q EXCEPT !.fresh = FALSE])
            /\ sleepers' = IF q.pc = "sleep" THEN Append(sleepers, <<d, k>>)
                            ELSE sleepers
    /\ UNCHANGED <<cfgVars, supVars, daemonVars, waitLog, ioloop, future, envVars,
                   otherVars>>

\* a query is given DEFAULT_TIMEOUT seconds from its start.  The two waits of
\* one attempt last (10 + 1) + (5 + 1) seconds at most, so the deadline of a
\* query passes only after the attempt it began in: when its daemon has been
\* replaced by a later attempt, or while the caller's test runs.
QueryMayExpire(d) ==
    \/ DEFAULT_TIMEOUT <= (FirstTimeout + 1) + (SecondTimeout + 1)
    \/ d # attempts
    \/ pc = "yielded"

\* the query timed out: run() calls pytest.xfail inside the coroutine.  When
\* XFailed is an Exception it is raised into this coroutine; otherwise it
\* leaves the IOLoop and run_sync, and ends the fixture without any handler.
ProberQueryXfail(d, k) ==
    /\ LoopTurning
    /\ prob[d][k].pc = "query"
    /\ QueryMayExpire(d)
    /\ SetProb(d, k, DoneProber)
    /\ IF ~xfailCaught /\ ioloop = "running"
       THEN /\ pc' = "xfail"
            /\ ioloop' = "stopped"
            /\ future' = "none"
       ELSE /\ future' = IF Own(d, k) THEN "XFailed" ELSE future
            /\ UNCHANGED <<pc, ioloop>>
    /\ UNCHANGED <<cfgVars, attempts, connectable, call, timeout, yielded, daemonVars,
                   waitLog, sleepers, envVars, otherVars>>

\* resumed from gen.sleep(0.5): test the loop condition again.  All sleeps
\* last 0.5 s, so their timers fire in the order in which they were set.
ProberWake(d, k) ==
    /\ LoopTurning
    /\ prob[d][k].pc = "sleep"
    /\ Head(sleepers) = <<d, k>>
    /\ sleepers' = Tail(sleepers)
    /\ SetProb(d, k, [prob[d][k] EXCEPT !.pc = WhileHead(d), !.fresh = FALSE])
    /\ UNCHANGED <<cfgVars, supVars, daemonVars, waitLog, ioloop, future, envVars,
                   otherVars>>

(***************************************************************************)
(* The supervisor fixture (salt_master and the fixtures of the same shape) *)
(***************************************************************************)
\* while attempts <= 3
LoopGuard(a) == a <= MaxAttempts

\* the test written attempts > 3
Exhausted_StrictlyGreater(a) == a > MaxAttempts

\* if attempts >= 3: pytest.xfail(...)
Exhausted(a) == a >= MaxAttempts

\* one daemon object constructed before the loop and started in every attempt
Constructed_Reused(a) == IF a > 0 THEN 1 ELSE a + 1

\* master_process = SaltMaster(...) in the loop body: the attempt numbered
\* a + 1 constructs an object of its own
Constructed(a) == a + 1

\* the object constructed and probed without start()
Attempt_ProbesUnstarted ==
    /\ pc = "loop"
    /\ LoopGuard(attempts)
    /\ attempts' = attempts + 1
    /\ pc' = "wait"
    /\ call' = 1
    /\ timeout' = FirstTimeout
    /\ UNCHANGED <<cfgVars, connectable, yielded, daemonVars, waitLog, loopVars,
                   envVars, otherVars>>

\* the top of the while loop: construct and start a new daemon object, or
\* leave the loop by its else clause and report the failure
Attempt ==
    /\ pc = "loop"
    /\ IF LoopGuard(attempts)
       THEN /\ attempts' = attempts + 1
            /\ start(Constructed(attempts))
            /\ pc' = "started"
       ELSE /\ pc' = "xfail"
            /\ UNCHANGED <<attempts, daemonVars>>
    /\ UNCHANGED <<cfgVars, connectable, call, timeout, yielded, waitLog, loopVars,
                   envVars, otherVars>>

\* if master_process.is_alive(): probe it, else terminate it and continue
CheckAlive ==
    /\ pc = "started"
    /\ IF is_alive(attempts)
       THEN /\ pc' = "wait"
            /\ call' = 1
            /\ timeout' = FirstTimeout
            /\ UNCHANGED <<daemonVars, envVars>>
       ELSE /\ terminate(attempts)
            /\ pc' = "loop"
            /\ UNCHANGED <<call, timeout>>
    /\ UNCHANGED <<cfgVars, attempts, connectable, yielded, waitLog, loopVars,
                   otherVars>>

\* the second result taken for readiness without the test 'is False'
AfterWait_SecondUnchecked(k, v) ==
    IF v = "True" THEN "toyield"
    ELSE IF v = "False" /\ k = 1 THEN "wait"
    ELSE IF v = "False" THEN "toyield"
    ELSE "giveup"

\* readiness accepted from the first call only
AfterWait_FirstOnly(k, v) ==
    IF v = "True" /\ k = 1 THEN "toyield"
    ELSE IF v = "False" /\ k = 1 THEN "wait"
    ELSE "giveup"

\* the call repeated after every False
AfterWait_AlwaysAgain(k, v) ==
    IF v = "True" THEN "toyield"
    ELSE IF v = "False" THEN "wait"
    ELSE "giveup"

\* the fixture's position after the value of a wait_until_running call:
\* yield on True, a second call after the first False, give up otherwise
\* (an exception raised by the call goes to the except clause)
AfterWait(k, v) ==
    IF v = "True" THEN "toyield"
    ELSE IF v = "False" /\ k = 1 THEN "wait"
    ELSE "giveup"

\* the failure never reported from the loop body
AfterGiveUp_NoXfail(a, v) == "loop"

\* the continue after terminate() left out: control falls through to the yield
AfterGiveUp_FallsThrough(a, v) ==
    IF ~Exhausted(a) THEN "toyield"
    ELSE IF v = "False" THEN "intry" ELSE "xfail"

\* after terminate() of a failed attempt: continue, or pytest.xfail when
\* attempts >= 3 (inside the try block after two False, else in the handler)
AfterGiveUp(a, v) ==
    IF ~Exhausted(a) THEN "loop"
    ELSE IF v = "False" THEN "intry" ELSE "xfail"

\* the branches after connectable = wait_until_running(...), and the except
\* clause for an exception raised by the call
Supervise ==
    /\ pc = "got"
    /\ LET to == AfterWait(call, connectable)
       IN IF to = "giveup"
          THEN /\ terminate(attempts)
               /\ pc' = AfterGiveUp(attempts, connectable)
               /\ UNCHANGED <<call, timeout>>
          ELSE /\ pc' = to
               /\ call' = IF to = "wait" THEN 2 ELSE call
               /\ timeout' = IF to = "wait" THEN SecondTimeout ELSE timeout
               /\ UNCHANGED <<daemonVars, envVars>>
    /\ UNCHANGED <<cfgVars, attempts, connectable, yielded, waitLog, loopVars,
                   otherVars>>

\* yield master_process: the handle goes to the caller
Yield ==
    /\ pc = "toyield"
    /\ pc' = "yielded"
    /\ yielded' = attempts
    /\ UNCHANGED <<cfgVars, attempts, connectable, call, timeout, daemonVars, waitLog,
                   loopVars, envVars, otherVars>>

\* pytest.xfail raised inside the try block (line 212): when XFailed is an
\* Exception the except clause catches it, terminates again and reports
\* the failure from there; otherwise it leaves the fixture at once
XfailInTry ==
    /\ pc = "intry"
    /\ IF xfailCaught
       THEN terminate(attempts)
       ELSE UNCHANGED <<daemonVars, envVars>>
    /\ pc' = "xfail"
    /\ UNCHANGED <<cfgVars, attempts, connectable, call, timeout, yielded, waitLog, loopVars,
                   otherVars>>

\* after the yield: the caller is done, the fixture terminates the daemon
Teardown ==
    /\ pc = "yielded"
    /\ terminate(yielded)
    /\ pc' = "done"
    /\ UNCHANGED <<cfgVars, attempts, connectable, call, timeout, yielded, waitLog, loopVars,
                   otherVars>>

(***************************************************************************)
(* The environment: the daemon process and what it serves                  *)
(***************************************************************************)
\* time passes for the environment while the fixture blocks in run_sync or
\* the caller's test runs; the fixture's own statements take no time
TimePasses == pc \in {"run", "yielded"}

\* the running daemon binds one of its ports
DaemonListen(port) ==
    /\ TimePasses
    /\ \E d \in Daemons : proc[d] = "running"
    /\ port \in check_ports_cfg
    /\ port \notin listening
    /\ listening' = listening \cup {port}
    /\ UNCHANGED <<cfgVars, supVars, daemonVars, waitLog, loopVars, joined,
                   otherVars>>

\* the running minion is accepted by its master
PeerJoin ==
    /\ TimePasses
    /\ \E d \in Daemons : proc[d] = "running"
    /\ check_ports_cfg \cap PeerNames # {}
    /\ ~joined
    /\ joined' = TRUE
    /\ UNCHANGED <<cfgVars, supVars, daemonVars, waitLog, loopVars, listening,
                   otherVars>>

(***************************************************************************)
(* Python values, as far as the one-shot commands and ShellResult use them *)
(***************************************************************************)
\* a value is its type and its content, the content spelled as characters
PyNone == [t |-> "None", v |-> <<>>]
PyStr(chars) == [t |-> "str", v |-> chars]
PyInt(digits) == [t |-> "int", v |-> digits]
PyDict(items) == [t |-> "dict", v |-> items]

\* bool(x): None, 0, the empty string and the empty dict are false
Truthy(x) ==
    /\ x # PyNone
    /\ x.v # <<>>
    /\ x # PyInt(<<"0">>)

\* x == y of two values: same type and same content
PyEq(x, y) == x = y

\* a byte that is no text in the system encoding
Undecodable == "xFF"

\* the characters a command writes, one chunk each
Tokens == {"{", "}", "1", Undecodable}

\* the error json.loads raises on text that is no JSON document
ValueError == [t |-> "ValueError", v |-> <<>>]

\* the error bytes.decode raises on bytes that are no text
UnicodeDecodeError == [t |-> "UnicodeDecodeError", v |-> <<>>]

\* stdout.decode(__salt_system_encoding__): the same characters as text, or
\* the error
decode(bytes) ==
    IF \E i \in 1..Len(bytes) : bytes[i] = Undecodable THEN UnicodeDecodeError
    ELSE PyStr(bytes)

\* json.loads(text) on this alphabet: "{}" is the empty dict, a run of the
\* digit 1 is an integer, anything else (under Python 2 the undecodable
\* byte too, as a UnicodeDecodeError is a ValueError) is no JSON document
json_loads(text) ==
    IF text = <<"{", "}">> THEN PyDict(<<>>)
    ELSE IF text # <<>> /\ \A i \in 1..Len(text) : text[i] = "1" THEN PyInt(text)
    ELSE ValueError

\* the exit code reported as success
ShellResult_ZeroExit(exitcode, stdout, stderr, json) ==
    [exitcode |-> "0", stdout |-> stdout, stderr |-> stderr, json |-> json]

\* ShellResult(exitcode, stdout, stderr, json)
ShellResult(exitcode, stdout, stderr, json) ==
    [exitcode |-> exitcode, stdout |-> stdout, stderr |-> stderr, json |-> json]

NoResult == ShellResult("None", PyNone, PyNone, PyNone)

\* SaltCliScriptBase.process_output: the streams as they are, and the JSON
\* document of stdout, None when stdout is empty or is no JSON document
process_output(stdout, stderr) ==
    LET json_out == IF stdout # <<>> /\ json_loads(stdout) # ValueError
                    THEN json_loads(stdout) ELSE PyNone
    IN [stdout |-> PyStr(stdout), stderr |-> PyStr(stderr), json |-> json_out]

(***************************************************************************)
(* SaltCliScriptBase: one run_sync or run call (SpecCli)                   *)
(***************************************************************************)
\* cli.clock: 0 before the IOLoop timeout of run_sync is due, 1 from then
\* until timeout_expire has passed, 2 after it; run_sync arms its timeout
\* before the coroutine computes timeout_expire, so it is due first
InitCli ==
    /\ check_ports_cfg = {}
    /\ iter_order = <<>>
    /\ salt_run = FALSE
    /\ xfailCaught = FALSE
    /\ SupIdle
    /\ eq = [pc |-> "unused"]
    /\ reap = [pc |-> "unused"]
    /\ terminal = [pc |-> "unused"]
    /\ loops = [pc |-> "unused"]
    /\ peer = [pc |-> "unused"]
    /\ \E mode \in {"run_sync", "run"}, same \in BOOLEAN, py3 \in BOOLEAN :
         cli = [mode |-> mode,
                \* six.PY3: the streams are decoded before process_output
                PY3 |-> py3,
                \* TRUE iff ioloop.TimeoutError and gen.TimeoutError are one class
                sameTimeoutError |-> same,
                pc |-> "new", clock |-> 0, loop |-> "stopped", armed |-> FALSE,
                term |-> "none", returncode |-> "None", written |-> 0,
                pipeOut |-> <<>>, pipeErr |-> <<>>,
                stdoutOpen |-> FALSE, stderrOpen |-> FALSE,
                out |-> "unbound", err |-> "unbound",
                stdout |-> <<>>, stderr |-> <<>>,
                closed |-> 0, outcome |-> "none", result |-> NoResult]

supAll == <<cfgVars, supVars, daemonVars, waitLog, loopVars, envVars>>

\* run_sync / run is called: _run_script computes timeout_expire, spawns the
\* process with both streams piped and suspends at its first gen.moment
CliCall ==
    /\ cli.pc = "new"
    /\ cli' = [cli EXCEPT !.pc = "loop", !.loop = "running",
                          !.armed = (cli.mode = "run_sync"),
                          !.term = "running",
                          !.stdoutOpen = TRUE, !.stderrOpen = TRUE]
    /\ UNCHANGED <<supAll, eq, reap, terminal, loops, peer>>

\* the command writes one chunk to one of its streams
CmdWrite(stream, tok) ==
    /\ cli.term = "running"
    /\ cli.written < MaxChunks
    /\ cli' = [cli EXCEPT !.written = @ + 1,
                          !.pipeOut = IF stream = "stdout" THEN Append(@, tok) ELSE @,
                          !.pipeErr = IF stream = "stderr" THEN Append(@, tok) ELSE @]
    /\ UNCHANGED <<supAll, eq, reap, terminal, loops, peer>>

\* the command exits by itself
CmdExit(code) ==
    /\ cli.term = "running"
    /\ cli' = [cli EXCEPT !.term = "exited", !.returncode = code]
    /\ UNCHANGED <<supAll, eq, reap, terminal, loops, peer>>

\* time passes
CliTick ==
    /\ cli.pc \in {"loop", "post"}
    /\ cli.clock < 2
    /\ cli' = [cli EXCEPT !.clock = @ + 1]
    /\ UNCHANGED <<supAll, eq, reap, terminal, loops, peer>>

\* terminal.recv(4096) / recv_err(4096) on an open stream: the buffered data,
\* the empty string when there is none, None at end of stream
Recv(pipe) ==
    IF pipe # <<>> THEN "data"
    ELSE IF cli.term = "exited" THEN "None"
    ELSE "empty"

\* close_terminal(terminal): whatever still runs is killed and reaped
close_terminal(c) ==
    [c EXCEPT !.closed = @ + 1,
              !.term = "exited",
              !.returncode = IF c.term = "running" THEN "-9" ELSE @]

\* what the caller of run_sync gets when the coroutine raised gen.TimeoutError:
\* pytest.xfail if the except clause for ioloop.TimeoutError matches it
RunSyncRaises(c) == IF c.sameTimeoutError THEN "xfail" ELSE "gen.TimeoutError"

\* the call ends for its caller, once
Outcome(c, o) == IF c.outcome = "none" THEN o ELSE c.outcome

\* one iteration of the IOLoop with the coroutine suspended in the draining
\* loop: the timeouts due at the start of the iteration are collected, the
\* coroutine is resumed (both streams read, end of stream tested, then
\* timeout_expire against the time now), and then the due timeout of run_sync
\* stops the loop: run_sync raises ioloop.TimeoutError if the coroutine has
\* not finished, and the coroutine stays suspended where it is
CliIterate ==
    /\ cli.loop = "running"
    /\ cli.pc = "loop"
    /\ \E now \in cli.clock..2 :
         LET due == cli.armed /\ cli.clock >= 1
             out == IF cli.stdoutOpen THEN Recv(cli.pipeOut) ELSE cli.out
             err == IF cli.stderrOpen THEN Recv(cli.pipeErr) ELSE cli.err
             read == [cli EXCEPT
                        !.clock = now, !.out = out, !.err = err,
                        !.stdout = IF cli.stdoutOpen THEN @ \o cli.pipeOut ELSE @,
                        !.stderr = IF cli.stderrOpen THEN @ \o cli.pipeErr ELSE @,
                        !.pipeOut = IF cli.stdoutOpen THEN <<>> ELSE @,
                        !.pipeErr = IF cli.stderrOpen THEN <<>> ELSE @,
                        !.stdoutOpen = @ /\ out # "None",
                        !.stderrOpen = @ /\ err # "None"]
             eof == out = "None" /\ err = "None"
             timedout == ~eof /\ now = 2
             closed == close_terminal(read)
             po == process_output(closed.stdout, closed.stderr)
             raises == /\ closed.PY3
                       /\ \/ decode(closed.stdout) = UnicodeDecodeError
                          \/ decode(closed.stderr) = UnicodeDecodeError
             after ==
                 IF eof /\ raises
                 THEN [closed EXCEPT
                         !.pc = "done",
                         !.outcome = Outcome(closed, "UnicodeDecodeError"),
                         !.loop = IF closed.mode = "run_sync" THEN "stopped" ELSE @,
                         !.armed = FALSE]
                 ELSE IF eof
                 THEN [closed EXCEPT
                         !.pc = "post",
                         !.result = ShellResult(closed.returncode, po.stdout,
                                                po.stderr, po.json)]
                 ELSE IF timedout
                 THEN [closed EXCEPT
                         !.pc = "done",
                         !.outcome = Outcome(closed, IF closed.mode = "run" THEN "xfail"
                                                     ELSE RunSyncRaises(closed)),
                         !.loop = IF closed.mode = "run_sync" THEN "stopped" ELSE @,
                         !.armed = FALSE]
                 ELSE read
         IN cli' = IF due /\ after.outcome = "none"
                   THEN [after EXCEPT !.loop = "stopped", !.armed = FALSE,
                                      !.outcome = "xfail"]
                   ELSE after
    /\ UNCHANGED <<supAll, eq, reap, terminal, loops, peer>>

\* resumed from the gen.moment after process_output: return the ShellResult
CliReturn ==
    /\ cli.loop = "running"
    /\ cli.pc = "post"
    /\ cli' = [cli EXCEPT !.pc = "done",
                          !.outcome = Outcome(cli, "result"),
                          !.loop = IF cli.mode = "run_sync" THEN "stopped" ELSE @,
                          !.armed = FALSE]
    /\ UNCHANGED <<supAll, eq, reap, terminal, loops, peer>>

\* a later run_sync on the same IOLoop: a coroutine left suspended by a
\* run_sync that timed out is resumed again
CliLoopAgain ==
    /\ cli.loop = "stopped"
    /\ cli.pc \in {"loop", "post"}
    /\ cli' = [cli EXCEPT !.loop = "running"]
    /\ UNCHANGED <<supAll, eq, reap, terminal, loops, peer>>

NextCli ==
    \/ CliCall
    \/ \E stream \in {"stdout", "stderr"}, tok \in Tokens : CmdWrite(stream, tok)
    \/ \E code \in {"0", "1"} : CmdExit(code)
    \/ CliTick
    \/ CliIterate
    \/ CliReturn
    \/ CliLoopAgain

SpecCli == InitCli /\ [][NextCli]_vars

(***************************************************************************)
(* ShellResult.__eq__ (SpecEq)                                             *)
(***************************************************************************)
Strings == {PyStr(<<>>), PyStr(<<"O", "K">>), PyStr(<<"{", "}">>)}

PyVals == {PyNone, PyInt(<<"0">>), PyInt(<<"1">>), PyDict(<<>>),
           PyDict(<<"a", "1">>)} \cup Strings

InitEq ==
    /\ check_ports_cfg = {}
    /\ iter_order = <<>>
    /\ salt_run = FALSE
    /\ xfailCaught = FALSE
    /\ SupIdle
    /\ cli = [mode |-> "unused"]
    /\ reap = [pc |-> "unused"]
    /\ terminal = [pc |-> "unused"]
    /\ loops = [pc |-> "unused"]
    /\ peer = [pc |-> "unused"]
    /\ \E stdout \in Strings, json \in PyVals, other \in PyVals :
         eq = [pc |-> "new", r |-> ShellResult("0", stdout, PyStr(<<>>), json),
               other |-> other, result |-> "unset"]

\* ShellResult.__eq__(self, other)
__eq__(self, other) ==
    IF Truthy(self.json) THEN PyEq(self.json, other)
    ELSE PyEq(self.stdout, other)

\* the comparison r == other is evaluated
Compare ==
    /\ eq.pc = "new"
    /\ eq' = [eq EXCEPT !.pc = "compared",
                        !.result = IF __eq__(eq.r, eq.other) THEN "True" ELSE "False"]
    /\ UNCHANGED <<supAll, cli, reap, terminal, loops, peer>>

NextEq == Compare

SpecEq == InitEq /\ [][NextEq]_vars

(***************************************************************************)
(* terminate() and terminate_child_processes(pid) against the process tree *)
(* of one daemon (SpecTerm)                                                *)
(***************************************************************************)
\* the pids of the processes forked below the supervised process; pid 0
\* stands for the supervised process itself (self._process.pid)
Kids == 1..MaxKids

\* a process is "none" before it is forked, "alive" while it runs, "zombie"
\* when it has exited and its pid still exists, "gone" once it was reaped.
\* The daemon object was started: its process runs, _running is set.
InitTerm ==
    /\ check_ports_cfg = {}
    /\ iter_order = <<>>
    /\ salt_run = FALSE
    /\ xfailCaught = FALSE
    /\ SupIdle
    /\ cli = [mode |-> "unused"]
    /\ eq = [pc |-> "unused"]
    /\ terminal = [pc |-> "unused"]
    /\ loops = [pc |-> "unused"]
    /\ peer = [pc |-> "unused"]
    /\ \E c \in BOOLEAN :
         reap = [\* the function called now and the one called before it
                 fn |-> "none", prev |-> "none",
                 pc |-> "idle", calls |-> 0,
                 root |-> "alive",
                 st |-> [k \in Kids |-> "none"],
                 par |-> [k \in Kids |-> 0],
                 orphan |-> [k \in Kids |-> FALSE],
                 running |-> TRUE, connectable |-> c,
                 children |-> <<>>, copy |-> <<>>, idx |-> 1,
                 \* TRUE iff psutil.Process(pid) raised NoSuchProcess in this call
                 nosuch |-> FALSE,
                 \* what the call in progress has done so far
                 enumerated |-> {}, signalled |-> {}, hit |-> {},
                 timedout |-> {}, resent |-> {}, skipped |-> {},
                 \* the children for which AccessDenied was raised, and the
                 \* exception that left the call
                 denied |-> {}, error |-> "none"]

\* process p exits: its pid stays until it is reaped, its children are
\* handed over to init and are no descendants of anything any more
Exited(r, p) ==
    [r EXCEPT !.root = IF p = 0 THEN "zombie" ELSE @,
              !.st = [k \in Kids |-> IF k = p THEN "zombie" ELSE @[k]],
              !.orphan = [k \in Kids |-> @[k] \/ (r.st[k] # "none" /\ r.par[k] = p)]]

\* the tree ignores the signal
Killed_Ignored(r, p) == r

\* signal.SIGKILL reaches pid p: a running process ends at once, it cannot
\* catch or ignore the signal; on a zombie it has no effect
Killed(r, p) == IF r.st[p] = "alive" THEN Exited(r, p) ELSE r

\* k is found by walking down from the supervised process
RECURSIVE UnderRoot(_, _)
UnderRoot(r, k) ==
    /\ ~r.orphan[k]
    /\ (r.par[k] = 0 \/ UnderRoot(r, r.par[k]))

\* a set of pids as a list
Ascending(S) ==
    CHOOSE q \in [1..Cardinality(S) -> S] :
        \A i, j \in 1..Cardinality(S) : i < j => q[i] < q[j]

\* psutil.Process(pid).children(recursive=True), [] on NoSuchProcess: the
\* descendants whose pid exists, none when the pid itself is gone
children_recursive(r) ==
    IF r.root = "gone" THEN <<>>
    ELSE Ascending({k \in Kids : r.st[k] \in {"alive", "zombie"} /\ UnderRoot(r, k)})

\* children.remove(child)
Remove(list, k) == SelectSeq(list, LAMBDA x : x # k)

\* the handler of NoSuchProcess put around the whole loop: the loop ends
AfterNoSuchProcess_EndsLoop(i, n) == n + 1

\* except psutil.NoSuchProcess inside the loop: on to the next child
AfterNoSuchProcess(i, n) == i + 1

\* the exit-time reaper registered by start() runs when the interpreter
\* exits: after it no terminate() is called any more
CallableAfter(prev) ==
    IF prev = "terminate_child_processes" THEN {"terminate_child_processes"}
    ELSE {"terminate", "terminate_child_processes"}

\* the call is entered (a second call follows a first one that returned)
TermCall(fn) ==
    /\ reap.pc \in {"idle", "returned"}
    /\ reap.calls < 2
    /\ fn \in CallableAfter(reap.fn)
    /\ reap' = [reap EXCEPT !.fn = fn, !.prev = reap.fn,
                            !.pc = "enum", !.children = <<>>, !.copy = <<>>,
                            !.idx = 1, !.nosuch = FALSE,
                            !.enumerated = {}, !.signalled = {},
                            !.hit = {}, !.timedout = {}, !.resent = {},
                            !.skipped = {}]
    /\ UNCHANGED <<supAll, cli, eq, terminal, loops, peer>>

\* parent = psutil.Process(pid); children = parent.children(recursive=True)
Enumerate ==
    /\ reap.pc = "enum"
    /\ LET list == children_recursive(reap)
       IN reap' = [reap EXCEPT
                     !.children = list, !.copy = list,
                     !.nosuch = (reap.root = "gone"),
                     !.enumerated = {list[i] : i \in 1..Len(list)},
                     !.pc = IF reap.fn = "terminate" THEN "clear" ELSE "for"]
    /\ UNCHANGED <<supAll, cli, eq, terminal, loops, peer>>

\* the flags cleared and the loop entered without self._process.terminate()
ClearAndSigterm_NoSigterm ==
    /\ reap.pc = "clear"
    /\ reap' = [reap EXCEPT !.running = FALSE, !.connectable = FALSE, !.pc = "for"]
    /\ UNCHANGED <<supAll, cli, eq, terminal, loops, peer>>

\* terminate() only: both flags cleared, sleep(0.0125), then
\* self._process.terminate() sends SIGTERM, which reaches pid 0 if it exists
ClearAndSigterm ==
    /\ reap.pc = "clear"
    /\ reap' = [reap EXCEPT
                  !.running = FALSE, !.connectable = FALSE,
                  !.signalled = IF reap.root # "gone" THEN @ \cup {0} ELSE @,
                  !.pc = "for"]
    /\ UNCHANGED <<supAll, cli, eq, terminal, loops, peer>>

\* the child the loop is at
Child(r) == r.copy[r.idx]

\* NoSuchProcess raised for the child the loop is at, and handled
NoSuchProcess(r) ==
    [r EXCEPT !.children = Remove(@, Child(r)),
              !.skipped = @ \cup {Child(r)},
              !.idx = AfterNoSuchProcess(r.idx, Len(r.copy)),
              !.pc = "for"]

\* every error caught
Handled_AnyError(exc) == TRUE

\* except psutil.NoSuchProcess: the one handler around the body of the loop
Handled(exc) == exc = "NoSuchProcess"

\* exc raised in the body of the loop for the child the loop is at: handled
\* there, or it leaves the call
Raised(r, exc) ==
    LET h == [r EXCEPT !.denied = IF exc = "AccessDenied"
                                  THEN @ \cup {Child(r)} ELSE @]
    IN IF Handled(exc) THEN NoSuchProcess(h)
       ELSE [h EXCEPT !.pc = "raised", !.error = exc]

\* child.cmdline(); child.send_signal(signal.SIGKILL).  A pid that is gone
\* raises NoSuchProcess; a zombie raises it (ZombieProcess) or takes the
\* signal without effect, depending on the psutil at hand; a pid that
\* exists and belongs to another user raises AccessDenied.
SendSigkill ==
    /\ reap.pc = "for"
    /\ reap.idx <= Len(reap.copy)
    /\ LET k == Child(reap)
           sent == [Killed(reap, k) EXCEPT
                      !.signalled = @ \cup {k},
                      !.hit = IF reap.st[k] = "alive" THEN @ \cup {k} ELSE @,
                      !.pc = "wait"]
       IN \/ /\ reap.st[k] \in {"gone", "zombie"}
             /\ reap' = Raised(reap, "NoSuchProcess")
          \/ /\ reap.st[k] \in {"alive", "zombie"}
             /\ reap' = sent
          \/ /\ reap.st[k] \in {"alive", "zombie"}
             /\ reap' = Raised(reap, "AccessDenied")
    /\ UNCHANGED <<supAll, cli, eq, terminal, loops, peer>>

\* child.wait(timeout=5): returns when the pid is gone, raises
\* TimeoutExpired while it still exists
WaitChild ==
    /\ reap.pc = "wait"
    /\ LET k == Child(reap)
       IN IF reap.st[k] = "gone"
          THEN reap' = [reap EXCEPT !.idx = @ + 1, !.pc = "for"]
          ELSE reap' = [reap EXCEPT !.timedout = @ \cup {k}, !.pc = "kill"]
    /\ UNCHANGED <<supAll, cli, eq, terminal, loops, peer>>

\* except psutil.TimeoutExpired: child.kill()
KillChild ==
    /\ reap.pc = "kill"
    /\ LET k == Child(reap)
       IN IF reap.st[k] = "gone"
          THEN reap' = Raised(reap, "NoSuchProcess")
          ELSE reap' = [Killed(reap, k) EXCEPT
                          !.signalled = @ \cup {k},
                          !.hit = IF reap.st[k] = "alive" THEN @ \cup {k} ELSE @,
                          !.resent = @ \cup {k},
                          !.idx = @ + 1, !.pc = "for"]
    /\ UNCHANGED <<supAll, cli, eq, terminal, loops, peer>>

\* after the loop: if children: psutil.wait_procs(children, timeout=5), whose
\* result is not looked at; the call returns
WaitProcsAndReturn ==
    /\ reap.pc = "for"
    /\ reap.idx > Len(reap.copy)
    /\ reap' = [reap EXCEPT !.pc = "returned", !.calls = @ + 1]
    /\ UNCHANGED <<supAll, cli, eq, terminal, loops, peer>>

\* a running process of the tree forks a child
Fork(p, k) ==
    /\ reap.pc # "unused"
    /\ IF p = 0 THEN reap.root = "alive" ELSE reap.st[p] = "alive"
    /\ reap.st[k] = "none"
    /\ reap' = [reap EXCEPT !.st[k] = "alive", !.par[k] = p, !.orphan[k] = FALSE]
    /\ UNCHANGED <<supAll, cli, eq, terminal, loops, peer>>

\* a running process of the tree exits by itself (the supervised process
\* does so when its flag is cleared, its daemon exits or SIGTERM arrives)
ProcessExit(p) ==
    /\ reap.pc # "unused"
    /\ IF p = 0 THEN reap.root = "alive" ELSE reap.st[p] = "alive"
    /\ reap' = Exited(reap, p)
    /\ UNCHANGED <<supAll, cli, eq, terminal, loops, peer>>

\* the parent of an exited process (or init) collects it: the pid is gone
ProcessReaped(p) ==
    /\ reap.pc # "unused"
    /\ IF p = 0 THEN reap.root = "zombie" ELSE reap.st[p] = "zombie"
    /\ reap' = [reap EXCEPT !.root = IF p = 0 THEN "gone" ELSE @,
                            !.st = [k \in Kids |-> IF k = p THEN "gone" ELSE @[k]]]
    /\ UNCHANGED <<supAll, cli, eq, terminal, loops, peer>>

NextTerm ==
    \/ \E fn \in {"terminate", "terminate_child_processes"} : TermCall(fn)
    \/ Enumerate
    \/ ClearAndSigterm
    \/ SendSigkill
    \/ WaitChild
    \/ KillChild
    \/ WaitProcsAndReturn
    \/ \E p \in 0..MaxKids, k \in Kids : Fork(p, k)
    \/ \E p \in 0..MaxKids : ProcessExit(p)
    \/ \E p \in 0..MaxKids : ProcessReaped(p)

SpecTerm == InitTerm /\ [][NextTerm]_vars

(***************************************************************************)
(* close_terminal(terminal) against the process of the terminal (SpecClose)*)
(***************************************************************************)
\* the iterations of the 5 s loop of close_terminal (400 in the code)
MaxPolls == 2

\* the error numbers of an OSError
ESRCH == "ESRCH"
EACCES == "EACCES"
EPERM == "EPERM"

\* terminal.st: "running", "zombie" once the process has exited, "reaped"
\* once poll() of the terminal has collected it, "gone" when something else
\* of the calling process collected it.  terminal.foreign: the process runs
\* under a user the caller may not signal.  terminal.guarded: send_signal of
\* the Python at hand does nothing once returncode is set.
InitClose ==
    /\ check_ports_cfg = {}
    /\ iter_order = <<>>
    /\ salt_run = FALSE
    /\ xfailCaught = FALSE
    /\ SupIdle
    /\ cli = [mode |-> "unused"]
    /\ eq = [pc |-> "unused"]
    /\ reap = [pc |-> "unused"]
    /\ loops = [pc |-> "unused"]
    /\ peer = [pc |-> "unused"]
    /\ \E f \in BOOLEAN, g \in BOOLEAN :
         terminal = [pc |-> "idle", st |-> "running", returncode |-> "None",
                     foreign |-> f, guarded |-> g,
                     killed |-> FALSE, polls |-> 0,
                     \* what the first poll() found, the calls made on the
                     \* terminal in their order, and the polls of the loop
                     entered |-> "none", log |-> <<>>, polled |-> 0,
                     \* the steps whose signal was delivered, the errors
                     \* swallowed, and the error that left the call
                     sent |-> {}, swallowed |-> {}, error |-> "none", at |-> "none"]

closeRest == <<supAll, cli, eq, reap, loops, peer>>

\* terminal.poll(): the exit status is collected if there is one, and a pid
\* that something else collected counts as exited
poll(t) ==
    IF t.returncode # "None" \/ t.st = "running" THEN t
    ELSE [t EXCEPT !.returncode = "set",
                   !.st = IF @ = "zombie" THEN "reaped" ELSE @]

\* the error of a pid that does not exist re-raised
Swallowed_OnlyEACCES(errno) == errno = EACCES

\* if exc.errno not in (errno.ESRCH, errno.EACCES): raise
Swallowed(errno) == errno \in {ESRCH, EACCES}

\* except OSError as exc, around one of the three signals
OSError(t, errno, next) ==
    IF Swallowed(errno)
    THEN [t EXCEPT !.swallowed = @ \cup {<<t.pc, errno>>}, !.pc = next]
    ELSE [t EXCEPT !.error = errno, !.at = t.pc, !.pc = "raised"]

\* send_signal, kill and terminate of the terminal, each a kill(2) of the
\* pid: no such process when the pid was collected, not permitted when the
\* process is another user's, else the signal is delivered (without effect
\* on a zombie)
send_signal(t, next) ==
    LET c == [t EXCEPT !.log = Append(@, t.pc)]
    IN IF c.guarded /\ c.returncode # "None" THEN [c EXCEPT !.pc = next]
       ELSE IF c.st \in {"reaped", "gone"} THEN OSError(c, ESRCH, next)
       ELSE IF c.foreign THEN OSError(c, EPERM, next)
       ELSE [c EXCEPT !.sent = @ \cup {c.pc},
                      !.killed = @ \/ c.pc # "terminate",
                      !.pc = next]

\* close_terminal(terminal) is called
CloseCall ==
    /\ terminal.pc = "idle"
    /\ terminal' = [terminal EXCEPT !.pc = "poll1"]
    /\ UNCHANGED closeRest

\* if terminal.poll() is None:
Poll1 ==
    /\ terminal.pc = "poll1"
    /\ LET t == poll(terminal)
       IN terminal' = [t EXCEPT !.pc = IF t.returncode = "None" THEN "signal"
                                       ELSE "poll2",
                                !.entered = IF t.returncode = "None" THEN "running"
                                            ELSE "exited",
                                !.polls = MaxPolls]
    /\ UNCHANGED closeRest

\* terminal.send_signal(signal.SIGKILL)
SendSignal ==
    /\ terminal.pc = "signal"
    /\ terminal' = send_signal(terminal, "loop")
    /\ UNCHANGED closeRest

\* while timeout > 0: if terminal.poll() is not None: break; the time left
\* is reduced, sleep
PollLoop ==
    /\ terminal.pc = "loop"
    /\ LET t == [poll(terminal) EXCEPT !.polled = @ + 1]
       IN terminal' =
            IF terminal.polls = 0 THEN [terminal EXCEPT !.pc = "poll2"]
            ELSE IF t.returncode # "None" THEN [t EXCEPT !.pc = "poll2"]
            ELSE [t EXCEPT !.polls = @ - 1]
    /\ UNCHANGED closeRest

\* if terminal.poll() is None: (the second time)
Poll2 ==
    /\ terminal.pc = "poll2"
    /\ LET t == poll(terminal)
       IN terminal' = [t EXCEPT !.pc = IF t.returncode = "None" THEN "kill"
                                       ELSE "terminate"]
    /\ UNCHANGED closeRest

\* terminal.kill()
Kill ==
    /\ terminal.pc = "kill"
    /\ terminal' = send_signal(terminal, "terminate")
    /\ UNCHANGED closeRest

\* terminal.terminate()
Terminate ==
    /\ terminal.pc = "terminate"
    /\ terminal' = send_signal(terminal, "communicate")
    /\ UNCHANGED closeRest

\* terminal.communicate(): returns when the process has exited
Communicate ==
    /\ terminal.pc = "communicate"
    /\ terminal.st # "running"
    /\ terminal' = [poll(terminal) EXCEPT !.log = Append(@, "communicate"),
                                         !.pc = "returned"]
    /\ UNCHANGED closeRest

\* the process exits, by itself or by a signal delivered to it
TerminalExit ==
    /\ terminal.pc # "unused"
    /\ terminal.st = "running"
    /\ terminal' = [terminal EXCEPT !.st = "zombie"]
    /\ UNCHANGED closeRest

\* the exited process is collected by something else than poll()
TerminalCollected ==
    /\ terminal.pc # "unused"
    /\ terminal.st = "zombie"
    /\ terminal' = [terminal EXCEPT !.st = "gone"]
    /\ UNCHANGED closeRest

NextClose ==
    \/ CloseCall
    \/ Poll1
    \/ SendSignal
    \/ PollLoop
    \/ Poll2
    \/ Kill
    \/ Terminate
    \/ Communicate
    \/ TerminalExit
    \/ TerminalCollected

SpecClose == InitClose /\ [][NextClose]_vars

(***************************************************************************)
(* The IOLoop fixtures, IOLoop.current() and the io_loop property of the   *)
(* daemon and command objects (SpecLoop)                                   *)
(***************************************************************************)
\* the tests of the session that use the function-scoped fixtures
MaxTests == 2

\* the scopes, and the IOLoop each scope's fixture creates and hands to the
\* objects of the scope as io_loop; "global" is IOLoop.instance()
Scopes == {"session", "function"}

\* loops.current: the IOLoop made current for the thread, "none" if cleared.
\* loops.fixture: each scope's io_loop fixture is "unset", "open" between
\* its setup and its teardown, then "closed".  loops.objects: the scopes
\* with a daemon or command object constructed.  loops.waits: for every
\* run_sync made by an object, its scope and the IOLoop it ran on.
InitLoop ==
    /\ check_ports_cfg = {}
    /\ iter_order = <<>>
    /\ salt_run = FALSE
    /\ xfailCaught = FALSE
    /\ SupIdle
    /\ cli = [mode |-> "unused"]
    /\ eq = [pc |-> "unused"]
    /\ reap = [pc |-> "unused"]
    /\ terminal = [pc |-> "unused"]
    /\ peer = [pc |-> "unused"]
    /\ loops = [pc |-> "tests", current |-> "none", initialized |-> FALSE,
                fixture |-> [s \in Scopes |-> "unset"],
                tests |-> 0, objects |-> {}, waits |-> {}]

loopRest == <<supAll, cli, eq, reap, terminal, peer>>

\* io_loop.make_current()
make_current(l, io_loop) == [l EXCEPT !.current = io_loop]

\* io_loop.clear_current(): the thread has no current IOLoop, whichever
\* IOLoop was current
clear_current(l) == [l EXCEPT !.current = "none"]

\* ioloop.IOLoop.current(): the current IOLoop of the thread, and
\* IOLoop.instance() when there is none
IOLoop_current(l) == IF l.current = "none" THEN "global" ELSE l.current

\* the loop handed to the constructor and kept as self._io_loop
io_loop_Given(l, scope) == scope

\* SaltScriptBase.io_loop
io_loop(l, scope) == IOLoop_current(l)

\* session_io_loop up to its yield, or the io_loop fixture of the function
\* scope (pytest-tornado), which does the same for every test: a new IOLoop
\* is made current.  The fixtures of the session are set up before those
\* of the first test that uses them.
FixtureSetup(scope) ==
    /\ loops.pc # "unused"
    /\ loops.fixture[scope] # "open"
    /\ IF scope = "session"
       THEN loops.fixture[scope] = "unset" /\ loops.fixture["function"] # "open"
       ELSE loops.tests < MaxTests
    /\ loops' = [make_current(loops, scope) EXCEPT
                   !.fixture[scope] = "open",
                   !.tests = IF scope = "function" THEN @ + 1 ELSE @]
    /\ UNCHANGED loopRest

\* a daemon or command fixture of the scope constructs its object with the
\* io_loop of the scope
Construct(scope) ==
    /\ loops.pc # "unused"
    /\ loops.fixture[scope] = "open"
    /\ scope \notin loops.objects
    /\ loops' = [loops EXCEPT !.objects = @ \cup {scope}]
    /\ UNCHANGED loopRest

\* self.io_loop.run_sync(...) of wait_until_running or of run_sync, by an
\* object of the scope
RunSync(scope) ==
    /\ loops.pc # "unused"
    /\ scope \in loops.objects
    /\ loops' = [loops EXCEPT
                   !.waits = @ \cup {<<scope, io_loop(loops, scope)>>},
                   !.initialized = @ \/ io_loop(loops, scope) = "global"]
    /\ UNCHANGED loopRest

\* the end of the scope: the objects of the scope are torn down, then the
\* fixture clears the current IOLoop and closes its own; the function scope
\* ends before the session
FixtureTeardown(scope) ==
    /\ loops.pc # "unused"
    /\ loops.fixture[scope] = "open"
    /\ scope = "session" => loops.fixture["function"] # "open"
    /\ loops' = [clear_current(loops) EXCEPT
                   !.fixture[scope] = "closed",
                   !.objects = @ \ {scope}]
    /\ UNCHANGED loopRest

NextLoop ==
    \/ \E scope \in Scopes : FixtureSetup(scope)
    \/ \E scope \in Scopes : Construct(scope)
    \/ \E scope \in Scopes : RunSync(scope)
    \/ \E scope \in Scopes : FixtureTeardown(scope)

SpecLoop == InitLoop /\ [][NextLoop]_vars

(***************************************************************************)
(* The peer-name check of the prober applied to the results of the         *)
(* 'manage.joined' query (SpecPeer)                                        *)
(***************************************************************************)
\* the minion ids a listing can hold
MaxMinions == 2

MinionIds == {<<"id", i>> : i \in 1..MaxMinions}

\* minions_joined.json: None (nothing parsed), or the listing of the ids
\* that have joined
Listings ==
    {[parsed |-> FALSE, listing |-> {}]}
        \cup {[parsed |-> TRUE, listing |-> l] : l \in SUBSET MinionIds}

\* what the parsed listing is for the check of one name
ListingFor(json, name) ==
    IF ~json.parsed THEN "None"
    ELSE IF name \in json.listing THEN "with id"
    ELSE "without id"

\* the coroutine has the ShellResult of the query in minions_joined and is
\* at line 1424, port being the name it checks
InitPeer ==
    /\ check_ports_cfg = {}
    /\ iter_order = <<>>
    /\ salt_run = FALSE
    /\ xfailCaught = FALSE
    /\ SupIdle
    /\ cli = [mode |-> "unused"]
    /\ eq = [pc |-> "unused"]
    /\ reap = [pc |-> "unused"]
    /\ terminal = [pc |-> "unused"]
    /\ loops = [pc |-> "unused"]
    /\ \E e \in {0, 1}, j \in Listings, name \in MinionIds,
          pending \in SUBSET (MinionIds \cup Ports) :
         /\ name \in pending
         /\ peer = [pc |-> "got", exitcode |-> e, json |-> j, port |-> name,
                    check_ports |-> pending, before |-> pending]

\* lines 1424-1428
PeerCheck ==
    /\ peer.pc = "got"
    /\ LET r == [exitcode |-> peer.exitcode,
                 json |-> ListingFor(peer.json, peer.port)]
       IN peer' = [peer EXCEPT
                     !.pc = "checked",
                     !.check_ports = IF PeerSatisfied(r) THEN @ \ {peer.port}
                                     ELSE @]
    /\ UNCHANGED <<supAll, cli, eq, reap, terminal, loops>>

\* the next query of the coroutine returns
PeerQueryAgain ==
    /\ peer.pc = "checked"
    /\ peer.port \in peer.check_ports
    /\ \E e \in {0, 1}, j \in Listings :
         peer' = [peer EXCEPT !.pc = "got", !.exitcode = e, !.json = j,
                              !.before = peer.check_ports]
    /\ UNCHANGED <<supAll, cli, eq, reap, terminal, loops>>

NextPeer ==
    \/ PeerCheck
    \/ PeerQueryAgain

SpecPeer == InitPeer /\ [][NextPeer]_vars

Next ==
    \/ Attempt
    \/ CheckAlive
    \/ WaitCall
    \/ WaitReturn
    \/ WaitTimeout
    \/ Supervise
    \/ Yield
    \/ XfailInTry
    \/ Teardown
    \/ LoopIteration
    \/ \E d \in Daemons, k \in Calls :
         \/ ProberQueryDone(d, k)
         \/ ProberQueryXfail(d, k)
         \/ ProberWake(d, k)
    \/ \E port \in Ports : DaemonListen(port)
    \/ PeerJoin

Spec == Init /\ [][Next]_vars

(***************************************************************************)
(* Properties of the supervisor fixture, checked under Spec                *)
(***************************************************************************)
\* the value the last wait_until_running call on daemon d handed back
LastWait(d) == IF waitLog[d] = <<>> THEN "none" ELSE waitLog[d][Len(waitLog[d])]

\* C1: whatever the liveness and readiness outcomes, at most 3 daemon objects
\* are constructed and started before the fixture yields or reports failure;
\* a 4th spawn never happens.
C1_AtMostThreeSpawns ==
    /\ attempts <= MaxAttempts
    /\ \A d \in Daemons : d > MaxAttempts => started[d] = 0

\* three daemons were spawned and the fixture reported the failure
C1_ThreeSpawnsThenFailure ==
    /\ pc = "xfail"
    /\ \A d \in 1..MaxAttempts : started[d] = 1

\* C2: when all attempts are exhausted without a daemon reaching readiness,
\* the fixture raises pytest.xfail: it hands no handle to the caller, it does
\* not go on, and it ends normally only after a yield.
C2_ExhaustionRaises ==
    /\ pc \in {"intry", "xfail"} => yielded = 0
    /\ pc = "done" => yielded # 0
    /\ (attempts >= MaxAttempts /\ terminated[attempts] > 0 /\ yielded = 0)
          => pc \in {"intry", "xfail"}

\* the 3rd attempt ended with two negative probes and the failure was raised
C2_ExhaustedThenXfail ==
    /\ pc = "xfail"
    /\ attempts = MaxAttempts
    /\ waitLog[MaxAttempts] = <<"False", "False">>
    /\ yielded = 0

\* C3: whenever the fixture has yielded a handle to the caller, is_alive() of
\* that handle is true at the yield (and until the teardown).
C3_YieldedIsAlive == pc = "yielded" => is_alive(yielded)

\* the handle of the 2nd attempt is with the caller, and alive
C3_SecondHandleYielded ==
    /\ pc = "yielded"
    /\ yielded = 2
    /\ is_alive(yielded)

\* C4: a handle is yielded only after wait_until_running returned True for
\* that handle in the current attempt; a handle whose probes both returned
\* False is never yielded.
C4_YieldOnlyAfterTrue ==
    /\ pc = "toyield" => LastWait(attempts) = "True"
    /\ yielded # 0 => (yielded = attempts /\ LastWait(yielded) = "True")

\* a handle is yielded on the second probe, after the first returned False
C4_YieldedOnSecondProbe ==
    /\ pc = "yielded"
    /\ waitLog[yielded] = <<"False", "True">>

\* C5: in every reachable state of every daemon object, _connectable is set
\* only if _running is set.
C5_ReadyOnlyIfAlive == \A d \in Daemons : _connectable[d] => _running[d]

\* C6: a daemon whose subprocess has exited right after start() is reported
\* not alive by is_alive(), and no readiness prober is invoked for it.
C6_ExitedIsNotProbed ==
    \A d \in Daemons :
        (proc[d] = "exited" /\ terminated[d] = 0)
            => (~is_alive(d) /\ prob[d][1].pc = "none" /\ waitLog[d] = <<>>)

\* C7: when the first 2 attempts failed and the probe of the 3rd attempt
\* reports readiness, the handle of the 3rd attempt is the one yielded.
C7_ThirdAttemptYields ==
    (attempts = MaxAttempts /\ LastWait(MaxAttempts) = "True")
        => (pc \in {"got", "toyield"} \/ yielded = MaxAttempts)

\* two attempts failed with two negative probes each, the 3rd is yielded
C7_YieldedOnThirdAttempt ==
    /\ yielded = MaxAttempts
    /\ waitLog[1] = <<"False", "False">>
    /\ waitLog[2] = <<"False", "False">>
    /\ LastWait(MaxAttempts) = "True"

\* C8: when the failure is reported after the 3rd attempt, terminate() has
\* been called on every daemon the fixture started and no process is live.
C8_FailureLeavesNoProcess ==
    (pc = "xfail" /\ attempts = MaxAttempts)
        => \A d \in Daemons :
              started[d] > 0 => (terminated[d] > 0 /\ proc[d] # "running")

(***************************************************************************)
(* Properties of the one-shot commands, checked under SpecCli              *)
(***************************************************************************)
\* C9: for run_sync and for run, when the call ends in a timeout failure,
\* close_terminal has been applied to the process before the failure is
\* reported, and the process is not left running.
C9_TimeoutClosesTerminal ==
    cli.outcome \in {"xfail", "gen.TimeoutError"}
        => (cli.closed > 0 /\ cli.term = "exited")

\* C24: a call that ended after the command completed, with accumulated
\* stdout that is empty or no JSON document, ended without an error: it
\* returned a ShellResult whose json is None and whose stdout and stderr are
\* the accumulated output.
C24_UndecodableGivesNone ==
    (/\ cli.pc = "done"
     /\ cli.outcome \notin {"none", "xfail", "gen.TimeoutError"}
     /\ (cli.stdout = <<>> \/ json_loads(cli.stdout) = ValueError))
        => /\ cli.outcome = "result"
           /\ cli.result.json = PyNone
           /\ cli.result.stdout = PyStr(cli.stdout)
           /\ cli.result.stderr = PyStr(cli.stderr)

\* what holds of a call of run() once it has ended for its caller: the
\* coroutine is finished and close_terminal was applied once, the process
\* has exited, and the call gave the ShellResult of the accumulated output,
\* the decode error, or the failure pytest.xfail
EndedAsRun(c) ==
    /\ c.pc = "done"
    /\ c.closed = 1
    /\ c.term = "exited"
    /\ c.outcome \in {"result", "xfail", "UnicodeDecodeError"}
    /\ c.outcome = "result"
          => c.result = ShellResult(c.returncode,
                                    process_output(c.stdout, c.stderr).stdout,
                                    process_output(c.stdout, c.stderr).stderr,
                                    process_output(c.stdout, c.stderr).json)

\* C27: a call of run_sync ends as the call of run ends for the same
\* command and timeout: with the same ShellResult, or with the same failure
\* and close_terminal applied to the process.
C27_RunSyncEndsAsRun ==
    cli.outcome # "none" => EndedAsRun(cli)

\* C31: the ShellResult of a call has the exit code of the process as its
\* exitcode, whether zero or not, and its stdout, stderr and json are what
\* process_output makes of the accumulated output, whatever the exit code;
\* a call that failed did so by a timeout or by output that is no text,
\* never by the exit code.
C31_ExitCodePassedThrough ==
    /\ cli.outcome = "result" =>
          /\ cli.returncode \in {"0", "1"}
          /\ cli.result.exitcode = cli.returncode
          /\ cli.result.stdout = process_output(cli.stdout, cli.stderr).stdout
          /\ cli.result.stderr = process_output(cli.stdout, cli.stderr).stderr
          /\ cli.result.json = process_output(cli.stdout, cli.stderr).json
    /\ cli.outcome \in {"xfail", "gen.TimeoutError"} => cli.clock >= 1
    /\ cli.outcome = "UnicodeDecodeError" =>
          /\ cli.PY3
          /\ UnicodeDecodeError \in {decode(cli.stdout), decode(cli.stderr)}

\* a command that wrote a JSON document and exited with code 1 gave a
\* ShellResult with that exit code and the document
C31_ResultWithExitCodeOne ==
    /\ cli.outcome = "result"
    /\ cli.result.exitcode = "1"
    /\ cli.result.json = PyDict(<<>>)

(***************************************************************************)
(* Properties of close_terminal, checked under SpecClose                   *)
(***************************************************************************)
\* C25: an OSError of send_signal, kill or terminate that means "not
\* permitted" (EPERM) or "no such process" (ESRCH) is swallowed and does
\* not leave close_terminal, and an OSError that was swallowed is one of
\* these two.
C25_PermissionErrorSwallowed ==
    /\ terminal.pc = "raised" => terminal.error \notin {EPERM, ESRCH}
    /\ \A x \in terminal.swallowed : x[2] \in {EPERM, ESRCH}

(***************************************************************************)
(* Properties of the IOLoop fixtures, checked under SpecLoop               *)
(***************************************************************************)
\* C29: after the end of the session fixture its IOLoop is not current, and
\* every run_sync of a daemon or command object ran on the IOLoop that the
\* fixture of the object's own scope installed and handed to it.
C29_WaitsOnLoopOfScope ==
    /\ loops.pc # "unused" =>
          /\ loops.fixture["session"] = "closed" => loops.current # "session"
          /\ \A w \in loops.waits : w[2] = io_loop_Given(loops, w[1])

\* C32: on a process found running, close_terminal sends SIGKILL first,
\* polls MaxPolls times at most, calls kill() only after a poll that found
\* the process still running, and then calls terminate() and communicate()
\* in every case: the call does not end otherwise, and when it has returned
\* the process is collected.
C32_EscalatingOrder ==
    terminal.entered = "running" =>
        /\ terminal.polled <= MaxPolls
        /\ terminal.pc # "raised"
        /\ terminal.pc = "kill" => terminal.returncode = "None"
        /\ terminal.pc = "returned" =>
              /\ terminal.log \in {<<"signal", "terminate", "communicate">>,
                                   <<"signal", "kill", "terminate", "communicate">>}
              /\ terminal.st \in {"reaped", "gone"}
              /\ terminal.returncode # "None"

\* C40: on a process that had exited when close_terminal was called, neither
\* send_signal nor kill() is called and the loop does not poll; terminate()
\* and communicate() are called, and the call returns, also when
\* terminate() raised the OSError of a pid that does not exist.
C40_ExitedOnlyTerminated ==
    terminal.entered = "exited" =>
        /\ terminal.polled = 0
        /\ terminal.sent = {}
        /\ terminal.pc \notin {"signal", "loop", "kill", "raised"}
        /\ \A i \in 1..Len(terminal.log) :
              terminal.log[i] \in {"terminate", "communicate"}
        /\ terminal.pc = "returned" =>
              terminal.log = <<"terminate", "communicate">>

\* the call returned although terminate() raised "no such process"
C40_ReturnedAfterESRCH ==
    /\ terminal.entered = "exited"
    /\ terminal.pc = "returned"
    /\ terminal.swallowed = {<<"terminate", ESRCH>>}

(***************************************************************************)
(* Properties of ShellResult, checked under SpecEq                         *)
(***************************************************************************)
\* C10: r == v equals (r.json == v) when json is not None, and equals
\* (r.stdout == v) when json is None.
C10_EqualityByPresence ==
    eq.pc = "compared"
        => eq.result = (IF (IF eq.r.json # PyNone THEN PyEq(eq.r.json, eq.other)
                            ELSE PyEq(eq.r.stdout, eq.other))
                        THEN "True" ELSE "False")

(***************************************************************************)
(* Properties of terminate() and terminate_child_processes, checked under  *)
(* SpecTerm                                                                *)
(***************************************************************************)
\* C11: when terminate() returns, no process forked below the supervised
\* process is alive, whatever the interleaving of the tree's own forking with
\* the call, descendants forked after the enumeration included.
C11_NoDescendantSurvives ==
    [][(reap.fn = "terminate" /\ reap.pc # "returned" /\ reap'.pc = "returned")
          => \A k \in Kids : reap'.st[k] # "alive"]_vars

\* C12: when terminate_child_processes(pid) has returned, every descendant
\* it enumerated was sent SIGKILL unless its pid had gone before, every
\* descendant whose 5 s wait timed out was sent kill() again (and no other),
\* and none of the enumerated descendants is alive.
C12_EnumeratedAreKilled ==
    reap.fn = "terminate_child_processes" =>
        /\ reap.resent \subseteq reap.timedout
        /\ \A k \in reap.timedout :
              \/ k \in reap.resent \cup reap.skipped
              \/ (reap.pc = "kill" /\ Child(reap) = k)
        /\ reap.pc = "returned" =>
              \A k \in reap.enumerated :
                  /\ reap.st[k] # "alive"
                  /\ k \in reap.signalled \cup reap.skipped

\* the reaper killed two running descendants and sent kill() again to one
C12_TwoKilledOneTwice ==
    /\ reap.fn = "terminate_child_processes"
    /\ reap.pc = "returned"
    /\ Cardinality(reap.hit) = 2
    /\ reap.resent # {}

\* C13: in both functions a descendant that raises NoSuchProcess is left out
\* and the descendants after it are still handled: at the return every
\* enumerated descendant was signalled or found missing; and when the pid
\* itself does not exist, nothing is enumerated and no signal reaches any
\* process.
C13_MissingProcessIsSkipped ==
    /\ reap.pc = "returned" =>
          reap.enumerated = (reap.signalled \ {0}) \cup reap.skipped
    /\ reap.nosuch => (reap.enumerated = {} /\ reap.signalled = {})

\* the first enumerated descendant had exited and was left out, the second
\* one was still running and was killed
C13_SkippedThenKilled ==
    /\ reap.pc = "returned"
    /\ Len(reap.copy) = 2
    /\ reap.copy[1] \in reap.skipped \ reap.signalled
    /\ reap.copy[2] \in reap.hit

\* C14: a terminate() that follows a terminate() that has returned sends
\* SIGKILL to no running process and leaves both flags cleared.
C14_SecondTerminateIdle ==
    (reap.fn = "terminate"
        /\ (reap.calls = 2 \/ (reap.calls = 1 /\ reap.pc \notin {"idle", "returned"})))
        => (reap.hit = {} /\ ~reap.running /\ ~reap.connectable)

\* C26: in both functions a permission error (AccessDenied) raised for a
\* descendant is not absorbed: it leaves the call at that descendant, which
\* is neither left out nor followed by the next one; NoSuchProcess is the
\* only error absorbed and never leaves the call.
C26_AccessDeniedPropagates ==
    /\ reap.denied # {} =>
          /\ reap.pc = "raised"
          /\ reap.error = "AccessDenied"
          /\ reap.denied = {Child(reap)}
          /\ Child(reap) \notin reap.skipped
    /\ reap.pc = "raised" <=> reap.error # "none"
    /\ reap.error # "NoSuchProcess"

\* terminate() left out a first descendant that was missing and was then
\* left by the AccessDenied of the second one
C26_SkippedThenDenied ==
    /\ reap.fn = "terminate"
    /\ reap.pc = "raised"
    /\ Len(reap.copy) = 2
    /\ reap.skipped = {reap.copy[1]}
    /\ reap.denied = {reap.copy[2]}

\* C28: the exit-time reaper terminate_child_processes(pid), run after a
\* terminate() of the daemon that has returned, sends no signal to any
\* process and raises no error.
C28_ReaperAfterTerminateIdle ==
    (reap.fn = "terminate_child_processes" /\ reap.prev = "terminate")
        => (reap.signalled = {} /\ reap.error = "none")

(***************************************************************************)
(* Properties of wait_until_running and of the attempts, checked under     *)
(* Spec                                                                    *)
(***************************************************************************)
\* C15: for a daemon class whose get_check_ports() is empty no coroutine
\* ever stands before a port connect, in a peer query or in a 0.5 s sleep,
\* the only value wait_until_running returns is True and it returns it on
\* the first call, and the fixture yields the daemon of the first attempt
\* without ever reporting a failure.
C15_EmptyChecksReadyAtOnce ==
    check_ports_cfg = {} =>
        /\ \A d \in Daemons, k \in Calls : prob[d][k].pc \notin {"for", "query", "sleep"}
        /\ sleepers = <<>>
        /\ \A d \in Daemons : waitLog[d] \in {<<>>, <<"True">>}
        /\ attempts <= 1
        /\ pc \notin {"giveup", "intry", "xfail"}
        /\ yielded \in {0, 1}

\* the daemon without readiness checks is with the caller after one attempt
\* and one call
C15_YieldedAfterOneCall ==
    /\ check_ports_cfg = {}
    /\ pc = "yielded"
    /\ yielded = 1
    /\ waitLog[1] = <<"True">>

\* the part of a coroutine's frame its own steps change
Frame(p) == [pc |-> p.pc, check_ports |-> p.check_ports, todo |-> p.todo]

\* C16: once a wait_until_running call has returned False, the coroutine that
\* call started takes no further step: it stays where the timeout left it.
C16_TimedOutProberIsCancelled ==
    [][\A d \in Daemons, k \in Calls :
          (k <= Len(waitLog[d]) /\ waitLog[d][k] = "False")
              => Frame(prob'[d][k]) = Frame(prob[d][k])]_vars

\* C17: the step by which a wait_until_running call ends in its timeout
\* changes neither the process nor the liveness flag of any daemon and calls
\* no terminate(); _running is cleared, and a running process is stopped, only
\* in a step that calls terminate() on that daemon.
C17_TimeoutLeavesProcessAlone ==
    [][/\ (pc = "run" /\ future = "pending" /\ pc' = "got")
           => (_running' = _running /\ proc' = proc /\ terminated' = terminated)
       /\ \A d \in Daemons :
            ((_running[d] /\ ~_running'[d]) \/ (proc[d] = "running" /\ proc'[d] # "running"))
                => terminated'[d] = terminated[d] + 1]_vars

\* a call has just ended in its timeout: the daemon still runs and is alive
C17_TimedOutStillRunning ==
    /\ pc = "got"
    /\ connectable = "False"
    /\ is_alive(attempts)
    /\ proc[attempts] = "running"
    /\ terminated[attempts] = 0

\* C18: while the coroutines of both calls of an attempt exist, every check
\* pending in the second call is still pending in the first: a check the
\* first call removed is not pending again for that daemon.
C18_PendingOnlyShrinks ==
    \A d \in Daemons :
        (/\ prob[d][1].pc \notin {"none", "entry", "done"}
         /\ prob[d][2].pc \notin {"none", "entry", "done"})
            => prob[d][2].check_ports \subseteq prob[d][1].check_ports

\* C19: every attempt so far has constructed an object of its own and started
\* it once; an object not yet constructed has been neither started nor
\* terminated; no object is started twice, so none is started after its
\* terminate().
C19_FreshObjectPerAttempt ==
    \A d \in Daemons :
        /\ started[d] = (IF d <= attempts THEN 1 ELSE 0)
        /\ d > attempts => (terminated[d] = 0 /\ ~_running[d] /\ proc[d] = "none")

\* three objects were started once each, the first two were terminated
\* before the third was started
C19_ThreeObjectsStartedOnce ==
    /\ attempts = MaxAttempts
    /\ \A d \in 1..MaxAttempts : started[d] = 1
    /\ terminated[1] > 0
    /\ terminated[2] > 0
    /\ terminated[MaxAttempts] = 0
    /\ pc = "started"

C21_ExceptionHandledAsFalse ==
    [][/\ (pc = "got" /\ connectable \notin {"True", "False"} /\ pc' # "got")
           => (IF AfterWait(call, "False") = "wait"
               THEN pc' = "wait" /\ call' = 2
               ELSE pc' = AfterGiveUp(attempts, "False"))
       /\ (pc = "run" /\ pc' = "xfail") => attempts >= MaxAttempts]_vars

\* C22: a peer query that ends without listing the peer, whatever its exit
\* code and data, or by its timeout, leaves the peer check pending and the
\* coroutine in its pass; it ends neither the coroutine nor the fixture.
C22_FailedQueryIsRetried ==
    [][/\ \A d \in Daemons, k \in Calls :
            (prob[d][k].pc = "query" /\ prob'[d][k].pc # "query")
                => /\ prob'[d][k].pc \in {"for", "sleep"}
                   /\ ~joined => prob[d][k].port \in prob'[d][k].check_ports
       /\ ~(pc = "run" /\ pc' = "xfail")]_vars

\* C23: every pass of a coroutine goes over all the checks pending at its
\* start; the connect to a pending port that accepts connections removes the
\* port from the pending set, the connect to a port that does not leaves it
\* pending; and the pass ends in the sleep only when all were tried.
C23_ListeningPortIsRemoved ==
    [][\A d \in Daemons, k \in Calls :
          LET p == prob[d][k]
              q == prob'[d][k]
          IN /\ (p.pc = "moment" /\ q.pc = "for") => q.todo = p.check_ports
             /\ (p.pc = "for" /\ q.todo # p.todo /\ NextPort(p.todo)[1] = "port")
                   => /\ NextPort(p.todo) \in p.check_ports
                      /\ NextPort(p.todo) \in listening
                            => NextPort(p.todo) \notin q.check_ports
                      /\ NextPort(p.todo) \notin listening
                            => NextPort(p.todo) \in q.check_ports
             /\ (p.pc # "sleep" /\ q.pc = "sleep") => q.todo = {}]_vars

\* a coroutine of the minion has connected to the listening port and removed
\* it, the peer check is still pending, and it sleeps before the next pass
C23_PortRemovedPeerPending ==
    \E d \in Daemons, k \in Calls :
        /\ prob[d][k].pc = "sleep"
        /\ prob[d][k].check_ports = {<<"id", 1>>}
        /\ <<"port", 1>> \in listening
        /\ _running[d]

\* C30: a daemon object for which a prober coroutine exists, or for which a
\* wait_until_running call has returned, has been started: no probe comes
\* before start(), and none is made on an object never started.
C30_StartPrecedesProbe ==
    \A d \in Daemons :
        (waitLog[d] # <<>> \/ \E k \in Calls : prob[d][k].pc # "none")
            => started[d] = 1

\* the coroutine of the second attempt stands before its first probe, on an
\* object that was started
C30_AboutToProbeStarted ==
    /\ attempts = 2
    /\ pc = "run"
    /\ call = 1
    /\ prob[2][1].pc = "for"
    /\ prob[2][1].todo = check_ports_cfg
    /\ started[2] = 1

\* C34: the name is removed from the pending set exactly when the query
\* ended with exit code 0 and its parsed listing holds the name; with
\* another exit code, no listing or a listing without the name nothing is
\* removed; no other check is removed in either case.
C34_RemovedIffListed ==
    peer.pc = "checked" =>
        /\ peer.port \notin peer.check_ports
              <=> /\ peer.exitcode = 0
                  /\ peer.json.parsed
                  /\ peer.port \in peer.json.listing
        /\ peer.before \ {peer.port} = peer.check_ports \ {peer.port}

\* the name was pending and was removed by a query whose listing held it;
\* the two other checks are still pending
C34_KeptThenRemoved ==
    /\ peer.pc = "checked"
    /\ peer.port \in peer.before
    /\ peer.port \notin peer.check_ports
    /\ Cardinality(peer.check_ports) = 2

\* C33: a coroutine leaves its while loop only with nothing pending or with
\* the flag _running of its daemon cleared, and once terminate() has cleared
\* that flag the coroutine makes no further port connect and starts no
\* further peer query.
C33_NoTestAfterFlagCleared ==
    [][\A d \in Daemons, k \in Calls :
          LET p == prob[d][k]
              q == prob'[d][k]
          IN /\ (p.pc \in {"moment", "sleep", "entry"} /\ q.pc = "final")
                   => (q.check_ports = {} \/ ~_running[d])
             /\ (terminated[d] > 0 /\ ~_running[d] /\ p.pc = "for")
                   => (q.pc = "for" /\ q.todo = p.todo)]_vars

\* C35: a daemon object on which terminate() has been called is not alive
\* and its readiness flag is cleared, in every later state.
C35_TerminatedStaysCleared ==
    \A d \in Daemons :
        terminated[d] > 0 => (~is_alive(d) /\ ~_connectable[d])


\* C36: at every moment the supervisor fixture owns at most one daemon object
\* that was started and not yet terminated: every object of an earlier
\* attempt has had its terminate() completed when the next one is started.
C36_OneLiveHandle ==
    /\ Cardinality({d \in Daemons : started[d] > 0 /\ terminated[d] = 0}) <= 1
    /\ \A d \in Daemons :
          (started[d] > 0 /\ d < attempts) => terminated[d] > 0

\* the third object is started and running while the first two have been
\* terminated
C36_ThirdStartedOthersTerminated ==
    /\ attempts = MaxAttempts
    /\ started[MaxAttempts] = 1
    /\ terminated[MaxAttempts] = 0
    /\ _running[MaxAttempts]
    /\ terminated[1] = 1
    /\ terminated[2] = 1

\* C37: in a call of terminate() the descendants are enumerated before the
\* flags are cleared and before SIGTERM goes to the supervised process, and a
\* descendant is sent a kill signal only after the flags were cleared and the
\* supervised process was signalled; only enumerated descendants are
\* signalled.
C37_EnumerateClearSignalKill ==
    reap.fn = "terminate" =>
        /\ reap.pc \in {"enum", "clear"} =>
              /\ reap.signalled = {}
              /\ reap.calls = 0 => reap.running
        /\ reap.pc = "clear" =>
              reap.enumerated = {reap.copy[i] : i \in 1..Len(reap.copy)}
        /\ reap.pc \in {"wait", "kill"} \/ reap.signalled \cap Kids # {} =>
              /\ ~reap.running
              /\ ~reap.connectable
              /\ reap.root # "gone" => 0 \in reap.signalled
              /\ (reap.signalled \cap Kids) \subseteq reap.enumerated

\* terminate() has signalled the supervised process and killed two running
\* descendants it had enumerated
C37_RootThenDescendantsSignalled ==
    /\ reap.fn = "terminate"
    /\ reap.pc = "returned"
    /\ 0 \in reap.signalled
    /\ Cardinality(reap.hit) = 2
    /\ reap.hit \subseteq reap.enumerated

\* C38: once both streams have signalled end-of-stream in a cycle of the
\* draining loop, the call leaves the loop and ends with a ShellResult, also
\* when the deadline has passed; a timeout is reported only when at least one
\* stream has not ended.
C38_EndOfStreamBeforeDeadline ==
    (cli.mode # "unused" /\ cli.pc # "new" /\ ~cli.stdoutOpen /\ ~cli.stderrOpen)
        => /\ cli.pc \in {"post", "done"}
           /\ cli.outcome \in {"none", "result"}
           /\ cli.pc = "done" => cli.outcome = "result"

\* C39: for a daemon that has a peer name to check and no salt_run, every
\* wait_until_running call ends by RuntimeError in its first pass (no pass is
\* completed, no query is made, there is no second call); the fixture
\* terminates the object and goes on to the next attempt, the daemon is never
\* declared ready nor yielded, and after the 3rd attempt the fixture reports
\* the failure instead of starting a 4th.
C39_NoSaltRunNeverYielded ==
    (check_ports_cfg \cap PeerNames # {} /\ ~salt_run) =>
        /\ yielded = 0
        /\ pc \notin {"toyield", "yielded", "done", "intry"}
        /\ attempts <= MaxAttempts
        /\ pc = "loop" => attempts < MaxAttempts
        /\ pc = "xfail" => attempts = MaxAttempts
        /\ \A d \in Daemons :
              /\ ~_connectable[d]
              /\ waitLog[d] \in {<<>>, <<"RuntimeError">>}
              /\ prob[d][1].pc \notin {"sleep", "query"}
              /\ prob[d][2].pc = "none"
              /\ waitLog[d] # <<>> => prob[d][1].pc = "done"
              /\ (d < attempts \/ pc \in {"loop", "xfail"}) /\ d <= attempts =>
                    /\ waitLog[d] = <<"RuntimeError">>
                    /\ terminated[d] = 1

\* three attempts ended by RuntimeError, each object terminated, the failure
\* reported
C39_ThreeRuntimeErrorsThenXfail ==
    /\ check_ports_cfg \cap PeerNames # {}
    /\ ~salt_run
    /\ pc = "xfail"
    /\ attempts = MaxAttempts
    /\ \A d \in 1..MaxAttempts :
          waitLog[d] = <<"RuntimeError">> /\ terminated[d] = 1
====
